---- MODULE Spec2Model ----
(***************************************************************************)
(* A model of the api_updates library: include/api_updates/api.hpp,        *)
(* src/api.cpp, src/api_compatibility.cpp and the driver tests/test.cpp.   *)
(*                                                                         *)
(* Two specifications share the variables.                                 *)
(*   Spec        the build (each translation unit is compiled declaration  *)
(*               by declaration, the objects are linked) followed by calls *)
(*               of init, foo, bar and use_some_class on the linked        *)
(*               program, with std::cout as the observable output.         *)
(*   SpecHandle  the opaque handle: internal_class instances behind        *)
(*               std::shared_ptr, held by internal_class_sptr variables    *)
(*               and by exposed_internal_class objects.                    *)
(***************************************************************************)
EXTENDS Integers, Sequences, FiniteSets, TLC

VARIABLES
    pos,      \* pos[t]: how many declarations of translation unit t are compiled
    linked,   \* TRUE once the objects are linked into one program
    symtab,   \* the linked program: mangled name -> the function body bound to it
    out,      \* std::cout, a sequence of tokens
    trace,    \* the calls made so far: entry point, argument, nested calls, output
    holders,  \* the handle variables and facade objects of the host program
    heap,     \* the internal_class instances
    lastget,  \* the last get_value call and what it returned
    fault     \* "none", or the undefined behaviour the program has run into

vars == <<pos, linked, symtab, out, trace, holders, heap, lastget, fault>>

(***************************************************************************)
(* Bounds of the model.                                                    *)
(***************************************************************************)
MaxOps == 2        \* calls of the output-producing entry points in one run
MaxHolders == 3    \* handle variables / facade objects of the host program
MaxInst == 2       \* internal_class instances created in one run

Names == {"John", ""}
Ages == {-3, 0, 12}
FooArgs == {-1, 0, 7}
Members == {5, 6}
Values == {0, 25}

(***************************************************************************)
(* Declarations.  A type is named by its namespace and its name; a         *)
(* declaration by namespace, name, kind, parameter types and the number of *)
(* trailing parameters that have a default argument.                       *)
(***************************************************************************)
Ty(ns, name) == [ns |-> ns, name |-> name]
IntT == Ty("", "int")
TypeDecl(ns, name) ==
    [ns |-> ns, name |-> name, kind |-> "type", params |-> <<>>, ndef |-> 0]
FuncDecl(ns, name, params, ndef) ==
    [ns |-> ns, name |-> name, kind |-> "func", params |-> params, ndef |-> ndef]
InlineFuncDecl(ns, name) ==
    [ns |-> ns, name |-> name, kind |-> "inline", params |-> <<>>, ndef |-> 0]

\* api.hpp:13, 22, 42: every namespace nested in a is an inline namespace.
IsInline(ns) == ns \in {"v_0", "v_1", "inline_v_0", "inline_v_1"}

\* The tag of the inline part of the header (InlineTag_stale: the tag left as
\* it was when bar() changed).
InlineTag_stale == "inline_v_0"
InlineTag == "inline_v_1"

V1Params == TypeDecl("v_1", "params")
V1Init == FuncDecl("v_1", "init", <<Ty("v_1", "params")>>, 0)
FooInt == FuncDecl("v_0", "foo", <<IntT>>, 1)
UseSomeClass ==
    FuncDecl("v_0", "use_some_class", <<Ty("v_0", "some_class_interface")>>, 0)
\* api.cpp:22 and api_compatibility.cpp:6-10: declared in no header.
FooVoid == FuncDecl("v_0", "foo", <<>>, 0)
V0Params == TypeDecl("v_0", "params")
V0Init == FuncDecl("v_0", "init", <<Ty("v_0", "params")>>, 0)

\* api.hpp:6-38, in the order of declaration.  (VersionedPart_keeps_v_0: the
\* header with the v_0 record and entry point left in it.)
VersionedPart_keeps_v_0 ==
    << TypeDecl("a", "internal_class"),
       TypeDecl("a", "internal_class_sptr"),
       V1Params,
       V1Init,
       V0Params,
       V0Init,
       FooInt,
       TypeDecl("v_0", "some_class_interface"),
       UseSomeClass,
       FuncDecl("v_0", "create_internal_class_instance", <<IntT>>, 0),
       FuncDecl("v_0", "get_value", <<Ty("a", "internal_class_sptr")>>, 0) >>
VersionedPart ==
    << TypeDecl("a", "internal_class"),
       TypeDecl("a", "internal_class_sptr"),
       V1Params,
       V1Init,
       FooInt,
       TypeDecl("v_0", "some_class_interface"),
       UseSomeClass,
       FuncDecl("v_0", "create_internal_class_instance", <<IntT>>, 0),
       FuncDecl("v_0", "get_value", <<Ty("a", "internal_class_sptr")>>, 0) >>

\* api.hpp:42-67 under a given tag.
InlinePart(tag) ==
    << InlineFuncDecl(tag, "bar"),
       TypeDecl(tag, "some_class"),
       TypeDecl(tag, "exposed_internal_class") >>

\* The header as it is now.
ApiHpp == VersionedPart \o InlinePart(InlineTag)

\* The header before case 3 renamed the inline part: bar() returned 10 under
\* the tag inline_v_0.
LegacyTag == "inline_v_0"
LegacyHpp == VersionedPart \o InlinePart(LegacyTag)

\* api.cpp: the header, then foo(int) defined, then the zero-argument foo().
ApiCpp == ApiHpp \o << FooVoid >>

\* api_compatibility.cpp: the header, then v_0::params and v_0::init.
ApiCompatibilityCpp ==
    ApiHpp \o << V0Params, V0Init >>

\* test.cpp: the header only.
TestCpp == ApiHpp

TUs == {"api", "compat", "test", "legacy"}
Consumers == {"test", "legacy"}

TUDecls(t) ==
    CASE t = "api" -> ApiCpp
      [] t = "compat" -> ApiCompatibilityCpp
      [] t = "test" -> TestCpp
      [] t = "legacy" -> LegacyHpp

\* The declarations translation unit t has seen so far / sees at its end.
Seen(t) == {TUDecls(t)[i] : i \in 1..pos[t]}
Scope(t) == {TUDecls(t)[i] : i \in 1..Len(TUDecls(t))}
Compiled(t) == pos[t] = Len(TUDecls(t))

(***************************************************************************)
(* Name lookup and overload resolution.                                    *)
(***************************************************************************)
\* q::name.  The members of an inline namespace are members of a as well.
QualifiedLookup(scope, q, name) ==
    {d \in scope : d.name = name /\ (d.ns = q \/ (q = "a" /\ IsInline(d.ns)))}

\* name, written inside namespace from: the innermost scope that declares it.
UnqualifiedLookup(scope, from, name) ==
    LET inner == {d \in scope : d.name = name /\ d.ns = from}
    IN  IF inner # {} THEN inner ELSE QualifiedLookup(scope, "a", name)

\* Argument-dependent lookup: a class type of an inline namespace of a brings
\* in a and all the inline namespaces of a.
ArgumentDependentLookup(scope, name, args) ==
    IF \E i \in 1..Len(args) : args[i].ns = "a" \/ IsInline(args[i].ns)
    THEN {d \in QualifiedLookup(scope, "a", name) : d.kind # "type"}
    ELSE {}

\* An argument binds to a parameter of its own type, and a some_class to a
\* some_class_interface& (its public base).
Converts(arg, param) ==
    \/ arg = param
    \/ arg.name = "some_class" /\ param = Ty("v_0", "some_class_interface")

\* The candidates a call with these argument types can bind to.
Viable(cands, args) ==
    {d \in cands :
        /\ d.kind # "type"
        /\ Len(args) <= Len(d.params)
        /\ Len(args) >= Len(d.params) - d.ndef
        /\ \A i \in 1..Len(args) : Converts(args[i], d.params[i])}

\* A call: written in namespace from, qualified with a:: or not.
Call(from, qual, name, args) ==
    [from |-> from, qual |-> qual, name |-> name, args |-> args]

Resolve(scope, cs) ==
    Viable(IF cs.qual
           THEN QualifiedLookup(scope, "a", cs.name)
           ELSE UnqualifiedLookup(scope, cs.from, cs.name)
                \cup ArgumentDependentLookup(scope, cs.name, cs.args),
           cs.args)

\* The type a::name names, when it names exactly one.
NamedType(scope, name) ==
    LET ds == {d \in QualifiedLookup(scope, "a", name) : d.kind = "type"}
    IN  IF Cardinality(ds) = 1
        THEN LET d == CHOOSE x \in ds : TRUE IN Ty(d.ns, d.name)
        ELSE Ty("", "ambiguous")

\* The linker's name of a function: its namespaces, inline ones included, its
\* name and its parameter types.
Mangle(d) == <<d.ns, d.name, d.params>>

(***************************************************************************)
(* The calls each translation unit makes.                                  *)
(***************************************************************************)
\* test.cpp:7  a::init(params), params of type a::params
TestCallInit == Call("", TRUE, "init", <<NamedType(Scope("test"), "params")>>)
\* test.cpp:8  a::foo()
TestCallFoo == Call("", TRUE, "foo", <<>>)
\* a::foo(arg) with the argument written
TestCallFooArg == Call("", TRUE, "foo", <<IntT>>)
\* test.cpp:9  a::bar(), in a consumer of either header
ConsumerCallBar == Call("", TRUE, "bar", <<>>)
\* test.cpp:12  a::use_some_class(some_class_instance)
TestCallUseSomeClass ==
    Call("", TRUE, "use_some_class", <<NamedType(Scope("test"), "some_class")>>)
\* api.cpp:24  foo(0), inside v_0::foo()
ApiCallFoo == Call("v_0", FALSE, "foo", <<IntT>>)
\* api_compatibility.cpp:17  init(new_params), inside v_0::init
CompatCallInit == Call("v_0", FALSE, "init", <<Ty("v_1", "params")>>)

CallSites(t) ==
    CASE t = "api" -> {ApiCallFoo}
      [] t = "compat" -> {CompatCallInit}
      [] t = "test" -> {TestCallInit, TestCallFoo, TestCallFooArg,
                        ConsumerCallBar, TestCallUseSomeClass}
      [] t = "legacy" -> {ConsumerCallBar}

\* A translation unit compiles when each of its calls binds to one function.
WellFormed(t) ==
    \A cs \in CallSites(t) : Cardinality(Resolve(Scope(t), cs)) = 1

Callee(t, cs) == Mangle(CHOOSE d \in Resolve(Scope(t), cs) : TRUE)

(***************************************************************************)
(* Objects and linking.                                                    *)
(***************************************************************************)
\* The functions translation unit t defines: api.cpp every function the
\* header declares and foo(); api_compatibility.cpp v_0::init; a consumer
\* the inline functions it uses, as weak definitions.
Defs(t) ==
    CASE t = "api" -> {Mangle(d) : d \in {x \in Scope("api") : x.kind = "func"}}
      [] t = "compat" -> {Mangle(V0Init)}
      [] OTHER -> {Mangle(d) : d \in {x \in Scope(t) : x.kind = "inline"}}

Weak(t) == t \in Consumers
Definers(sym) == {t \in TUs : sym \in Defs(t)}
AllSyms == UNION {Defs(t) : t \in TUs}

\* The symbols that have weak definitions only.
WeakSyms == {sym \in AllSyms : \A t \in Definers(sym) : Weak(t)}

\* One definition per strong symbol, or the link fails.
Linkable ==
    \A sym \in AllSyms : Cardinality({t \in Definers(sym) : ~Weak(t)}) <= 1

\* Compile the next declaration of t; the last step checks its calls.
Compile(t) ==
    /\ ~linked
    /\ pos[t] < Len(TUDecls(t))
    /\ pos[t] + 1 = Len(TUDecls(t)) => WellFormed(t)
    /\ pos' = [pos EXCEPT ![t] = @ + 1]
    /\ UNCHANGED <<linked, symtab, out, trace, holders, heap, lastget, fault>>

\* Link the objects: each symbol is bound to one of its definitions, the
\* strong one if there is one, any of the weak ones otherwise.
Link ==
    /\ ~linked
    /\ \A t \in TUs : Compiled(t)
    /\ Linkable
    /\ \E w \in [WeakSyms -> Consumers] :
          /\ \A sym \in WeakSyms : w[sym] \in Definers(sym)
          /\ symtab' = [sym \in AllSyms |->
                          IF sym \in WeakSyms THEN w[sym]
                          ELSE CHOOSE t \in Definers(sym) : ~Weak(t)]
    /\ linked' = TRUE
    /\ UNCHANGED <<pos, out, trace, holders, heap, lastget, fault>>

(***************************************************************************)
(* Output.  std::cout is a sequence of tokens: a string literal or a       *)
(* std::string is one token, an int is written in decimal, a token for the *)
(* sign and one for each digit.                                            *)
(***************************************************************************)
Digits == <<"0", "1", "2", "3", "4", "5", "6", "7", "8", "9">>

RECURSIVE DecNat(_)
DecNat(n) ==
    IF n < 10 THEN <<Digits[n + 1]>>
    ELSE DecNat(n \div 10) \o <<Digits[(n % 10) + 1]>>

\* operator<<(int)
Dec(n) == IF n < 0 THEN <<"-">> \o DecNat(-n) ELSE DecNat(n)

\* sub occurs in s as a run of consecutive tokens
Contains(s, sub) ==
    \E i \in 0..(Len(s) - Len(sub)) :
        \A j \in 1..Len(sub) : s[i + j] = sub[j]

\* What a function body did: the functions it called in turn, what it wrote,
\* the virtual calls it made on its argument.
Eff(calls, emitted, vcalls) ==
    [calls |-> calls, emitted |-> emitted, vcalls |-> vcalls]
Invocation(sym, arg) == [sym |-> sym, arg |-> arg]

(***************************************************************************)
(* The records.                                                            *)
(***************************************************************************)
\* api.hpp:16  int age = 0
age_default == 0
\* v_1::params as default construction leaves it
v_1_params == [name |-> "", age |-> age_default]
ParamsV1 == [name : Names, age : Ages]
\* v_0::params, api_compatibility.cpp:6-8
ParamsV0 == [name : Names]

(***************************************************************************)
(* The function bodies of api.cpp and api_compatibility.cpp.               *)
(***************************************************************************)
\* api.cpp:48-51  (v_1_init_name_only: the body as it was before the field)
v_1_init_name_only(init_params) ==
    Eff(<<>>, <<"hello from init:  name: ", init_params.name, "\n">>, <<>>)
v_1_init(init_params) ==
    Eff(<<>>,
        <<"hello from init:  name: ", init_params.name, " age: ">>
            \o Dec(init_params.age) \o <<"\n">>,
        <<>>)

\* api.cpp:16-19
foo(arg) ==
    Eff(<<>>, <<"hello from foo with arg: ">> \o Dec(arg) \o <<"\n">>, <<>>)

\* The capability objects: a some_class (api.hpp:46-56), which answers f1 and
\* f2 from _m1 and _m2, and a client's own implementation of
\* some_class_interface, which answers them from one field.
SomeClass(arg1, arg2) == [type |-> "some_class", _m1 |-> arg1, _m2 |-> arg2]
ClientClass(base) == [type |-> "client_class", _base |-> base]
CapabilityObjects ==
    {SomeClass(x, y) : x \in Members, y \in Members}
        \cup {ClientClass(b) : b \in Members}

\* The order of the two calls in one << chain is the build's choice.
EvaluationOrders == {<<"f1", "f2">>, <<"f2", "f1">>}

\* virtual int f1(), virtual int f2()
f1(obj) == IF obj.type = "some_class" THEN obj._m1 ELSE obj._base
f2(obj) == IF obj.type = "some_class" THEN obj._m2 ELSE obj._base + 1

\* api.cpp:27-30, the two virtual calls in the order the build evaluates them
\* (use_some_class_no_f2: f1 written twice)
use_some_class_no_f2(arg, order) ==
    Eff(<<>>,
        <<"hello from use_some_class. arg.f1(): ">> \o Dec(f1(arg))
            \o <<" arg.f2(): ">> \o Dec(f1(arg)) \o <<"\n">>,
        <<"f1", "f1">>)
use_some_class(arg, order) ==
    Eff(<<>>,
        <<"hello from use_some_class. arg.f1(): ">> \o Dec(f1(arg))
            \o <<" arg.f2(): ">> \o Dec(f2(arg)) \o <<"\n">>,
        order)

\* api.hpp:43
bar == 20
\* bar() under the tag inline_v_0
bar_inline_v_0 == 10
\* bar() as translation unit t compiled it
BarIn(t) == IF t = "legacy" THEN bar_inline_v_0 ELSE bar

\* The body bound to a symbol that calls nothing of the library in turn.
RunLeaf(sym, arg) ==
    LET e == CASE sym = Mangle(V1Init) -> v_1_init(arg)
               [] sym = Mangle(FooInt) -> foo(arg)
               [] OTHER -> Eff(<<>>, <<"<no return>">>, <<>>)
    IN  Eff(<<Invocation(sym, arg)>> \o e.calls, e.emitted, e.vcalls)

\* api.cpp:22-25  v_0::foo(), which is foo(0)
foo_void_forwards_one ==
    LET e == RunLeaf(Callee("api", ApiCallFoo), 1)
    IN  Eff(<<Invocation(Mangle(FooVoid), <<>>)>> \o e.calls, e.emitted, e.vcalls)
foo_void ==
    LET e == RunLeaf(Callee("api", ApiCallFoo), 0)
    IN  Eff(<<Invocation(Mangle(FooVoid), <<>>)>> \o e.calls, e.emitted, e.vcalls)

\* api_compatibility.cpp:12-14  the v_1::params the shim fills up
\* (v_0_init_new_params_sets_age: the shim sets the new field as well)
v_0_init_new_params_sets_age(init_params) ==
    [name |-> init_params.name, age |-> 12]
v_0_init_new_params(init_params) ==
    [v_1_params EXCEPT !.name = init_params.name]

\* api_compatibility.cpp:10-18  v_0::init
v_0_init(init_params) ==
    LET new_params == v_0_init_new_params(init_params)
        e == RunLeaf(Callee("compat", CompatCallInit), new_params)
    IN  Eff(<<Invocation(Mangle(V0Init), init_params)>> \o e.calls,
            e.emitted, e.vcalls)

\* api.hpp:23  the default argument of foo
foo_arg_default == 0

(***************************************************************************)
(* Calls on the linked program.                                            *)
(***************************************************************************)
Entry(fn, arg, e, ret) ==
    [fn |-> fn, arg |-> arg, calls |-> e.calls, emitted |-> e.emitted,
     vcalls |-> e.vcalls, ret |-> ret]

Enter(fn, arg, e, ret) ==
    /\ out' = out \o e.emitted
    /\ trace' = Append(trace, Entry(fn, arg, e, ret))
    /\ UNCHANGED <<pos, linked, symtab, holders, heap, lastget, fault>>

\* The linked program runs, and the run is within the bound.
Running == linked /\ fault = "none" /\ Len(trace) < MaxOps

\* a::init(p) in a consumer of the header
CallInit(p) ==
    /\ Running
    /\ Enter("a::init", p, RunLeaf(Callee("test", TestCallInit), p), 0)

\* test.cpp:5-7  a::params params; params.name = name; a::init(params);
CallInitNameOnly(name) ==
    /\ Running
    /\ LET p == [v_1_params EXCEPT !.name = name]
       IN  Enter("a::init, name only", p,
                 RunLeaf(Callee("test", TestCallInit), p), 0)

\* a client built against generation v_0 calls v_0::init(v_0::params const&)
CallInitV0(r) ==
    /\ Running
    /\ Mangle(V0Init) \in DOMAIN symtab
    /\ Enter("v_0::init", r, v_0_init(r), 0)

\* a::foo(arg) in a consumer of the header
CallFoo(arg) ==
    /\ Running
    /\ Enter("a::foo(arg)", arg,
             RunLeaf(Callee("test", TestCallFooArg), arg), 0)

\* test.cpp:8  a::foo(): the call site passes the default argument
CallFooOmitted ==
    /\ Running
    /\ Enter("a::foo()", <<>>,
             RunLeaf(Callee("test", TestCallFoo), foo_arg_default), 0)

\* a client built before case 1 calls the zero-argument v_0::foo()
CallFooCompat ==
    /\ Running
    /\ Mangle(FooVoid) \in DOMAIN symtab
    /\ Enter("v_0::foo()", <<>>, foo_void, 0)

\* a::bar() in consumer t: the compiler expands the call inline, or emits a
\* call of the symbol, which runs the definition the linker kept
CallBar(t, inlined) ==
    /\ Running
    /\ LET sym == Callee(t, ConsumerCallBar)
           val == IF inlined THEN BarIn(t) ELSE BarIn(symtab[sym])
       IN  Enter("a::bar()", t, Eff(<<Invocation(sym, <<>>)>>, <<>>, <<>>), val)

\* test.cpp:11-12  a::use_some_class(obj); order: the order in which the
\* build evaluates arg.f1() and arg.f2()
CallUseSomeClass(obj, order) ==
    /\ Running
    /\ LET e == use_some_class(obj, order)
           sym == Callee("test", TestCallUseSomeClass)
       IN  Enter("a::use_some_class", obj,
                 Eff(<<Invocation(sym, obj)>> \o e.calls, e.emitted, e.vcalls), 0)

(***************************************************************************)
(* The opaque handle.  internal_class_sptr is std::shared_ptr of           *)
(* internal_class (api.hpp:10): a holder is empty (ptr = 0) or refers to   *)
(* an instance, whose use count is the number of holders that refer to it. *)
(* An exposed_internal_class holds one internal_class_sptr, _impl, and has *)
(* the copy and move operations the compiler generates.                    *)
(***************************************************************************)
Holders == 1..MaxHolders
Instances == 1..MaxInst

NoHolder == [st |-> "none", kind |-> "", ptr |-> 0]
Holder(kind, ptr) == [st |-> "live", kind |-> kind, ptr |-> ptr]
NoInstance == [st |-> "free", arg |-> 0, _value |-> 0, use_count |-> 0]
NoGet == [via |-> "", inst |-> 0, ret |-> 0]

\* api.cpp:7  internal_class(int value) : _value(value)
\* (internal_class_stub: a constant in place of the argument)
internal_class_stub(value) == 12
internal_class(value) == value

\* api.cpp:8  int get_value() const
internal_class_get_value(obj) == obj._value

\* shared_ptr: one more holder of instance i
Acquire(hp, i) ==
    IF i = 0 THEN hp ELSE [hp EXCEPT ![i].use_count = @ + 1]

\* shared_ptr: one holder of instance i less; the last one destroys it
\* (Release_leaks: the last one does not)
Release_leaks(hp, i) ==
    IF i = 0 THEN hp ELSE [hp EXCEPT ![i].use_count = @ - 1]
Release(hp, i) ==
    IF i = 0 THEN hp
    ELSE IF hp[i].use_count = 1
         THEN [hp EXCEPT ![i].use_count = 0, ![i].st = "destroyed"]
         ELSE [hp EXCEPT ![i].use_count = @ - 1]

\* api.cpp:33-36  std::make_shared<internal_class>(value), as instance i
create_internal_class_instance(hp, i, value) ==
    [hp EXCEPT ![i] = [st |-> "live", arg |-> value,
                       _value |-> internal_class(value), use_count |-> 1]]

Fresh(i) == heap[i].st = "free" /\ \A j \in Instances : j < i => heap[j].st # "free"

\* internal_class_sptr h = a::create_internal_class_instance(value);
NewHandle(h, value) ==
    /\ fault = "none"
    /\ holders[h].st = "none"
    /\ \E i \in Instances :
         /\ Fresh(i)
         /\ heap' = create_internal_class_instance(heap, i, value)
         /\ holders' = [holders EXCEPT ![h] = Holder("sptr", i)]
    /\ UNCHANGED <<pos, linked, symtab, out, trace, lastget, fault>>

\* internal_class_sptr h;
EmptyHandle(h) ==
    /\ fault = "none"
    /\ holders[h].st = "none"
    /\ holders' = [holders EXCEPT ![h] = Holder("sptr", 0)]
    /\ UNCHANGED <<pos, linked, symtab, out, trace, heap, lastget, fault>>

\* api.hpp:62  exposed_internal_class w(value);
NewExposed(w, value) ==
    /\ fault = "none"
    /\ holders[w].st = "none"
    /\ \E i \in Instances :
         /\ Fresh(i)
         /\ heap' = create_internal_class_instance(heap, i, value)
         /\ holders' = [holders EXCEPT ![w] = Holder("exposed", i)]
    /\ UNCHANGED <<pos, linked, symtab, out, trace, lastget, fault>>

\* T d(s);
CopyConstruct(d, s) ==
    /\ fault = "none"
    /\ holders[d].st = "none"
    /\ holders[s].st = "live"
    /\ holders' = [holders EXCEPT ![d] = holders[s]]
    /\ heap' = Acquire(heap, holders[s].ptr)
    /\ UNCHANGED <<pos, linked, symtab, out, trace, lastget, fault>>

\* T d(std::move(s));  the source is left empty
MoveConstruct(d, s) ==
    /\ fault = "none"
    /\ holders[d].st = "none"
    /\ holders[s].st = "live"
    /\ holders' = [holders EXCEPT ![d] = holders[s], ![s].ptr = 0]
    /\ UNCHANGED <<pos, linked, symtab, out, trace, heap, lastget, fault>>

\* d = s;
CopyAssign(d, s) ==
    /\ fault = "none"
    /\ holders[d].st = "live"
    /\ holders[s].st = "live"
    /\ holders[d].kind = holders[s].kind
    /\ holders' = [holders EXCEPT ![d].ptr = holders[s].ptr]
    /\ heap' = Release(Acquire(heap, holders[s].ptr), holders[d].ptr)
    /\ UNCHANGED <<pos, linked, symtab, out, trace, lastget, fault>>

\* d = std::move(s);  shared_ptr(std::move(s)).swap(d)
MoveAssign(d, s) ==
    /\ fault = "none"
    /\ holders[d].st = "live"
    /\ holders[s].st = "live"
    /\ holders[d].kind = holders[s].kind
    /\ IF d = s
       THEN UNCHANGED <<holders, heap>>
       ELSE /\ holders' = [holders EXCEPT ![d].ptr = holders[s].ptr, ![s].ptr = 0]
            /\ heap' = Release(heap, holders[d].ptr)
    /\ UNCHANGED <<pos, linked, symtab, out, trace, lastget, fault>>

\* the holder goes out of scope
Destroy(h) ==
    /\ fault = "none"
    /\ holders[h].st = "live"
    /\ holders' = [holders EXCEPT ![h] = NoHolder]
    /\ heap' = Release(heap, holders[h].ptr)
    /\ UNCHANGED <<pos, linked, symtab, out, trace, lastget, fault>>

\* api.cpp:38-41  class_ptr->get_value(); through an empty class_ptr the
\* behaviour is undefined: the call faults, whatever it returns
get_value(via, class_ptr) ==
    IF class_ptr = 0
    THEN /\ fault' = "null dereference"
         /\ \E garbage \in Values :
              lastget' = [via |-> via, inst |-> 0, ret |-> garbage]
    ELSE /\ fault' = fault
         /\ lastget' = [via |-> via, inst |-> class_ptr,
                        ret |-> internal_class_get_value(heap[class_ptr])]

\* a::get_value(h)
GetValue(h) ==
    /\ fault = "none"
    /\ holders[h].st = "live"
    /\ holders[h].kind = "sptr"
    /\ get_value("a::get_value", holders[h].ptr)
    /\ UNCHANGED <<pos, linked, symtab, out, trace, holders, heap>>

\* api.hpp:63  w.get_value(), which is a::get_value(_impl)
ExposedGetValue(w) ==
    /\ fault = "none"
    /\ holders[w].st = "live"
    /\ holders[w].kind = "exposed"
    /\ get_value("exposed_internal_class::get_value", holders[w].ptr)
    /\ UNCHANGED <<pos, linked, symtab, out, trace, holders, heap>>

(***************************************************************************)
(* The specification of the build and the calls.                           *)
(***************************************************************************)
Init ==
    /\ pos = [t \in TUs |-> 0]
    /\ linked = FALSE
    /\ symtab = <<>>
    /\ out = <<>>
    /\ trace = <<>>
    /\ holders = [h \in Holders |-> NoHolder]
    /\ heap = [i \in Instances |-> NoInstance]
    /\ lastget = NoGet
    /\ fault = "none"

Next ==
    \/ \E t \in TUs : Compile(t)
    \/ Link
    \/ \E p \in ParamsV1 : CallInit(p)
    \/ \E name \in Names : CallInitNameOnly(name)
    \/ \E r \in ParamsV0 : CallInitV0(r)
    \/ \E arg \in FooArgs : CallFoo(arg)
    \/ CallFooOmitted
    \/ CallFooCompat
    \/ \E t \in Consumers, inlined \in BOOLEAN : CallBar(t, inlined)
    \/ \E obj \in CapabilityObjects, order \in EvaluationOrders :
         CallUseSomeClass(obj, order)

Spec == Init /\ [][Next]_vars

(***************************************************************************)
(* Properties of the build and the calls.                                  *)
(***************************************************************************)
Calls == DOMAIN trace

\* e is one line: it ends with its only "\n"
OneLine(e) ==
    /\ Len(e) > 0
    /\ \A i \in 1..Len(e) : (e[i] = "\n") <=> (i = Len(e))

\* C1: v_0::init(r) calls v_1::init once, with a v_1::params whose name is
\* r.name and whose age is the default 0, and writes nothing of its own: its
\* output is the output of v_1::init({r.name, 0}), also as a consumer's
\* a::init of that record wrote it.
C1_ShimDelegatesWithDefaultAge ==
    \A k \in Calls : trace[k].fn = "v_0::init" =>
        LET r == trace[k].arg
            p == [name |-> r.name, age |-> 0]
        IN  /\ trace[k].calls = << Invocation(Mangle(V0Init), r),
                                   Invocation(Mangle(V1Init), p) >>
            /\ trace[k].emitted = v_1_init(p).emitted
            /\ \A j \in Calls :
                 (trace[j].fn = "a::init" /\ trace[j].arg = p)
                     => trace[j].emitted = trace[k].emitted

C1_Witness ==
    \E k, j \in Calls :
        /\ trace[k].fn = "v_0::init" /\ trace[k].arg.name = "John"
        /\ trace[j].fn = "a::init" /\ trace[j].arg = [name |-> "John", age |-> 0]

\* C2: the zero-argument v_0::foo() calls foo(int) once with 0 and writes
\* nothing of its own, a::foo() with the argument omitted is a call of
\* foo(int) with 0, and both write what a::foo(0) writes.
C2_FooForwardsDefault ==
    \A k \in Calls :
        /\ trace[k].fn = "v_0::foo()" =>
             trace[k].calls = << Invocation(Mangle(FooVoid), <<>>),
                                 Invocation(Mangle(FooInt), 0) >>
        /\ trace[k].fn = "a::foo()" =>
             trace[k].calls = << Invocation(Mangle(FooInt), 0) >>
        /\ trace[k].fn \in {"v_0::foo()", "a::foo()"} =>
             /\ trace[k].emitted = foo(0).emitted
             /\ \A j \in Calls :
                  (trace[j].fn = "a::foo(arg)" /\ trace[j].arg = 0)
                      => trace[j].emitted = trace[k].emitted

C2_Witness ==
    \E k, j \in Calls :
        /\ trace[k].fn = "v_0::foo()"
        /\ trace[j].fn = "a::foo(arg)" /\ trace[j].arg = 0

\* C5: the output of use_some_class is one line that contains the values f1()
\* and f2() returned; two arguments that return the same pair give the same
\* output, whatever their type; f1 and f2 are the only calls on the argument.
C5_OutputFromCapabilityOnly ==
    \A k \in Calls : trace[k].fn = "a::use_some_class" =>
        LET x == f1(trace[k].arg)
            y == f2(trace[k].arg)
        IN  /\ OneLine(trace[k].emitted)
            /\ Contains(trace[k].emitted, Dec(x))
            /\ Contains(trace[k].emitted, Dec(y))
            /\ Len(trace[k].vcalls) = 2
            /\ {trace[k].vcalls[i] : i \in 1..2} = {"f1", "f2"}
            /\ \A j \in Calls :
                 (/\ trace[j].fn = "a::use_some_class"
                  /\ f1(trace[j].arg) = x
                  /\ f2(trace[j].arg) = y)
                     => trace[j].emitted = trace[k].emitted

C5_Witness ==
    \E k, j \in Calls :
        /\ trace[k].fn = "a::use_some_class" /\ trace[k].arg = SomeClass(5, 6)
        /\ trace[j].fn = "a::use_some_class" /\ trace[j].arg = ClientClass(5)

PublicNames ==
    {"params", "init", "foo", "bar", "some_class", "use_some_class",
     "create_internal_class_instance", "get_value"}

\* C7: in a consumer of the header every public name written a::name names
\* at most one declaration at every point, and exactly one after the header;
\* a::params and a::init are those of v_1; v_0::init over v_0::params is
\* declared in its translation unit under its qualified name and defined in
\* the linked program.
C7_OneCurrentGeneration ==
    /\ \A n \in PublicNames :
         Cardinality(QualifiedLookup(Seen("test"), "a", n)) <= 1
    /\ Compiled("test") =>
         /\ \A n \in PublicNames :
              Cardinality(QualifiedLookup(Seen("test"), "a", n)) = 1
         /\ QualifiedLookup(Seen("test"), "a", "params") = {V1Params}
         /\ QualifiedLookup(Seen("test"), "a", "init") = {V1Init}
    /\ Compiled("compat") =>
         /\ QualifiedLookup(Seen("compat"), "v_0", "params") = {V0Params}
         /\ QualifiedLookup(Seen("compat"), "v_0", "init") = {V0Init}
    /\ linked =>
         /\ Mangle(V0Init) \in DOMAIN symtab
         /\ symtab[Mangle(V0Init)] = "compat"
         /\ Mangle(V1Init) \in DOMAIN symtab

C7_Witness ==
    /\ linked
    /\ \E k \in Calls : trace[k].fn = "v_0::init"
    /\ \E k \in Calls : trace[k].fn = "a::init, name only"

\* C8: linked together, a unit built against the tag inline_v_0 and one built
\* against inline_v_1 bind bar() to different symbols, and each call of bar()
\* returns the value its own unit compiled in (10 and 20); a unit that pins
\* no tag calls inline_v_1::bar, which returns 20 and writes nothing.
C8_BarPerTag ==
    /\ linked =>
         /\ Callee("test", ConsumerCallBar) = <<"inline_v_1", "bar", <<>>>>
         /\ Callee("test", ConsumerCallBar) # Callee("legacy", ConsumerCallBar)
    /\ \A k \in Calls : trace[k].fn = "a::bar()" =>
         /\ trace[k].arg = "test" => trace[k].ret = 20
         /\ trace[k].arg = "legacy" => trace[k].ret = 10
         /\ trace[k].emitted = <<>>
         /\ Len(trace[k].calls) = 1

C8_Witness ==
    \E k, j \in Calls :
        /\ trace[k].fn = "a::bar()" /\ trace[k].arg = "test" /\ trace[k].ret = 20
        /\ trace[j].fn = "a::bar()" /\ trace[j].arg = "legacy" /\ trace[j].ret = 10

\* C9: a::init(p) writes exactly one line, which contains p.name and p.age;
\* a record that was default-constructed and given only a name has age 0, so
\* its line contains the name and "0".
C9_InitWritesNameAndAge ==
    \A k \in Calls : trace[k].fn \in {"a::init", "a::init, name only"} =>
        LET p == trace[k].arg
        IN  /\ Len(trace[k].calls) = 1
            /\ OneLine(trace[k].emitted)
            /\ Contains(trace[k].emitted, <<p.name>>)
            /\ Contains(trace[k].emitted, Dec(p.age))
            /\ trace[k].fn = "a::init, name only" =>
                 /\ p.age = 0
                 /\ Contains(trace[k].emitted, <<"0">>)

C9_Witness ==
    \E k \in Calls :
        /\ trace[k].fn = "a::init, name only"
        /\ trace[k].arg.name = "John"
        /\ Contains(trace[k].emitted, <<"John">>)
        /\ Contains(trace[k].emitted, <<"0">>)

(***************************************************************************)
(* The specification of the opaque handle.                                 *)
(***************************************************************************)
NextHandle ==
    \/ \E h \in Holders, value \in Values : NewHandle(h, value)
    \/ \E h \in Holders : EmptyHandle(h)
    \/ \E w \in Holders, value \in Values : NewExposed(w, value)
    \/ \E d, s \in Holders : CopyConstruct(d, s)
    \/ \E d, s \in Holders : MoveConstruct(d, s)
    \/ \E d, s \in Holders : CopyAssign(d, s)
    \/ \E d, s \in Holders : MoveAssign(d, s)
    \/ \E h \in Holders : Destroy(h)
    \/ \E h \in Holders : GetValue(h)
    \/ \E w \in Holders : ExposedGetValue(w)

SpecHandle == Init /\ [][NextHandle]_vars

(***************************************************************************)
(* Properties of the opaque handle.                                        *)
(***************************************************************************)
HoldersOf(i) == {h \in Holders : holders[h].st = "live" /\ holders[h].ptr = i}

\* C3: an instance made from value v holds v for as long as it lives, and
\* get_value through any handle or facade that refers to it, a copy
\* included, returns v.
C3_GetValueReturnsCreatedValue ==
    /\ \A i \in Instances :
         heap[i].st = "live" => heap[i]._value = heap[i].arg
    /\ lastget.inst # 0 => lastget.ret = heap[lastget.inst].arg

C3_Witness ==
    /\ lastget.via = "exposed_internal_class::get_value"
    /\ lastget.inst # 0
    /\ lastget.ret = 25
    /\ Cardinality(HoldersOf(lastget.inst)) >= 2

\* C4: all holders of a handle refer to one instance, whose use count is
\* their number; the instance lives while a holder refers to it and is
\* destroyed as soon as none does.
C4_DestroyedWithLastHolder ==
    \A i \in Instances :
        /\ heap[i].use_count = Cardinality(HoldersOf(i))
        /\ heap[i].st = "live" <=> HoldersOf(i) # {}
        /\ heap[i].st = "destroyed" => HoldersOf(i) = {}
        /\ (heap[i].st # "free" /\ HoldersOf(i) = {}) => heap[i].st = "destroyed"

C4_Witness ==
    \E i, j \in Instances :
        /\ heap[i].st = "destroyed"
        /\ heap[j].st = "live"
        /\ Cardinality(HoldersOf(j)) >= 2

\* C6: every public operation returns normally for every value of its
\* parameter type: no call runs into a fault.
C6_AllOperationsTotal == fault = "none"

\* C10: every exposed_internal_class object refers to a live instance, a
\* moved-from one included.
C10_ExposedHoldsLiveInstance ==
    \A w \in Holders :
        (holders[w].st = "live" /\ holders[w].kind = "exposed") =>
            /\ holders[w].ptr # 0
            /\ heap[holders[w].ptr].st = "live"

====
